---------------------------- MODULE Spec2Model ----------------------------
(***************************************************************************)
(* Maze-Runner: the Maze class of main.py.                                 *)
(*                                                                         *)
(* A maze is an n_rows x n_cols grid with two flat boolean edge arrays     *)
(* (True = passage).  The constructor allocates the arrays and carves the  *)
(* maze with _carve_path_iter; move and make_binary_map query the carved   *)
(* maze.  Python lists are modelled as functions over 0 .. len-1 so that   *)
(* every index keeps the value it has in the source.                       *)
(***************************************************************************)
EXTENDS Integers, Sequences, FiniteSets

(* ------------------------------ bounds -------------------------------- *)
MaxRows == 3
MaxCols == 3
MaxCells == 9

(* ---------------------------- Direction ------------------------------- *)
NORTH == 0
SOUTH == 1
EAST == 2
WEST == 3
Direction == {NORTH, SOUTH, EAST, WEST}

\* list(Direction) after random.shuffle: any ordering of the four members
Shuffles ==
  {p \in [1..4 -> Direction] : \A i, j \in 1..4 : p[i] = p[j] => i = j}

\* the value standing for "the call raised AssertionError"; every index the
\* helpers return normally is >= 0
AssertionError == -1

None == <<-1, -1, -1>>

VARIABLES
  _n_rows,            \* self._n_rows
  _n_cols,            \* self._n_cols
  _start_pos,         \* self._start_pos
  _goal_pos,          \* self._goal_pos
  _horizontal_edges,  \* self._horizontal_edges
  _vertical_edges,    \* self._vertical_edges
  _visited,           \* self._visited
  visiting_nodes,     \* the local stack of _carve_path_iter
  pc,                 \* "new" | "loop" | "carved" | "raised"
  ret                 \* the last query's arguments and result

vars == <<_n_rows, _n_cols, _start_pos, _goal_pos, _horizontal_edges,
          _vertical_edges, _visited, visiting_nodes, pc, ret>>

maze == <<_n_rows, _n_cols, _start_pos, _goal_pos, _horizontal_edges,
          _vertical_edges, _visited, visiting_nodes>>

(* ----------------------- edge / cell index helpers -------------------- *)
_get_north_edge_idx(row, col) ==
  IF ~(row > 0 /\ row < _n_rows) THEN AssertionError
  ELSE IF ~(col >= 0 /\ col < _n_cols) THEN AssertionError
  ELSE _n_cols * (row - 1) + col

_get_south_edge_idx(row, col) ==
  IF ~(row >= 0 /\ row < _n_rows - 1) THEN AssertionError
  ELSE IF ~(col >= 0 /\ col < _n_cols) THEN AssertionError
  ELSE _n_cols * row + col

\* _get_east_edge_idx with row and col exchanged in the index arithmetic
_get_east_edge_idx_transposed(row, col) ==
  IF ~(row >= 0 /\ row < _n_cols) THEN AssertionError
  ELSE IF ~(col >= 0 /\ col < _n_cols - 1) THEN AssertionError
  ELSE _n_cols * col - col + row

_get_east_edge_idx(row, col) ==
  IF ~(row >= 0 /\ row < _n_cols) THEN AssertionError
  ELSE IF ~(col >= 0 /\ col < _n_cols - 1) THEN AssertionError
  ELSE _n_cols * row - row + col

_get_west_edge_idx(row, col) ==
  IF ~(row >= 0 /\ row < _n_cols) THEN AssertionError
  ELSE IF ~(col > 0 /\ col < _n_cols) THEN AssertionError
  ELSE _n_cols * row - row + (col - 1)

_get_edge_idx(row, col, direction) ==
  CASE direction = NORTH -> _get_north_edge_idx(row, col)
    [] direction = SOUTH -> _get_south_edge_idx(row, col)
    [] direction = EAST -> _get_east_edge_idx(row, col)
    [] direction = WEST -> _get_west_edge_idx(row, col)

\* the value read, or AssertionError; h and v are the two edge arrays
_get_edge_at(h, v, row, col, direction) ==
  LET edge_idx == _get_edge_idx(row, col, direction)
  IN IF edge_idx = AssertionError THEN [raised |-> TRUE, val |-> FALSE]
     ELSE IF direction = NORTH \/ direction = SOUTH
          THEN [raised |-> FALSE, val |-> h[edge_idx]]
          ELSE [raised |-> FALSE, val |-> v[edge_idx]]

_get_cell_index(row, col) ==
  IF ~(row >= 0 /\ row < _n_rows) THEN AssertionError
  ELSE IF ~(col >= 0 /\ col < _n_cols) THEN AssertionError
  ELSE row * _n_cols + col

_get_cell_at(row, col, d) ==
  CASE d = NORTH -> <<row - 1, col>>
    [] d = SOUTH -> <<row + 1, col>>
    [] d = EAST -> <<row, col + 1>>
    [] d = WEST -> <<row, col - 1>>

\* the count c of unvisited in-grid neighbours, read from the array vis
_has_non_visited_neighbours(vis, row, col) ==
    (IF row > 0 /\ ~vis[_get_cell_index(row - 1, col)] THEN 1 ELSE 0)
  + (IF row < _n_rows - 1 /\ ~vis[_get_cell_index(row + 1, col)] THEN 1 ELSE 0)
  + (IF col > 0 /\ ~vis[_get_cell_index(row, col - 1)] THEN 1 ELSE 0)
  + (IF col < _n_cols - 1 /\ ~vis[_get_cell_index(row, col + 1)] THEN 1 ELSE 0)

(* ------------------------------ carving ------------------------------- *)
\* The carving state threaded through one pass of the for loop.
CarveState(h, v, vis, stack, raised) ==
  [h |-> h, v |-> v, vis |-> vis, stack |-> stack, raised |-> raised]

\* _set_edge_at(row, col, direction, True) on the arrays of st
_set_edge_at(st, row, col, direction) ==
  LET edge_idx == _get_edge_idx(row, col, direction)
  IN IF edge_idx = AssertionError THEN [st EXCEPT !.raised = TRUE]
     ELSE IF direction = NORTH \/ direction = SOUTH
          THEN [st EXCEPT !.h[edge_idx] = TRUE]
          ELSE [st EXCEPT !.v[edge_idx] = TRUE]

\* carve_iter_body without "self._visited[next_node_idx] = True"
carve_iter_body_no_mark(st, node, d) ==
  LET next_node == _get_cell_at(node[1], node[2], d)
  IN IF next_node[1] < 0 \/ next_node[1] >= _n_rows THEN st
     ELSE IF next_node[2] < 0 \/ next_node[2] >= _n_cols THEN st
     ELSE LET next_node_idx == _get_cell_index(next_node[1], next_node[2])
          IN IF st.vis[next_node_idx] THEN st
             ELSE LET st1 == _set_edge_at(st, node[1], node[2], d)
                  IN IF st1.raised THEN st1
                     ELSE [st1 EXCEPT !.stack = Append(@, next_node)]

\* the body of "for d in directions" of _carve_path_iter, for one d
carve_iter_body(st, node, d) ==
  LET next_node == _get_cell_at(node[1], node[2], d)
  IN IF next_node[1] < 0 \/ next_node[1] >= _n_rows THEN st
     ELSE IF next_node[2] < 0 \/ next_node[2] >= _n_cols THEN st
     ELSE LET next_node_idx == _get_cell_index(next_node[1], next_node[2])
          IN IF st.vis[next_node_idx] THEN st
             ELSE LET st1 == _set_edge_at(st, node[1], node[2], d)
                  IN IF st1.raised THEN st1
                     ELSE [st1 EXCEPT !.vis[next_node_idx] = TRUE,
                                      !.stack = Append(@, next_node)]

\* "for d in directions": the loop stops at the first raised assertion
RECURSIVE carve_iter_for(_, _, _)
carve_iter_for(st, node, directions) ==
  IF directions = <<>> \/ st.raised THEN st
  ELSE carve_iter_for(carve_iter_body(st, node, Head(directions)),
                      node, Tail(directions))

\* _carve_path_recur(node): the set of carving states it can return in, one
\* per outcome of the shuffles of this call and of the calls it makes (the
\* stack field is not used).  A raised assertion propagates through every
\* enclosing for loop.
RECURSIVE carve_recur(_, _)
RECURSIVE carve_recur_for(_, _, _)
carve_recur(st, node) ==
  LET node_idx == _get_cell_index(node[1], node[2])
  IN IF node_idx = AssertionError THEN {[st EXCEPT !.raised = TRUE]}
     ELSE UNION {carve_recur_for([st EXCEPT !.vis[node_idx] = TRUE],
                                 node, directions) : directions \in Shuffles}

carve_recur_for(st, node, directions) ==
  IF directions = <<>> \/ st.raised THEN {st}
  ELSE LET d == Head(directions)
           next_node == _get_cell_at(node[1], node[2], d)
       IN IF next_node[1] < 0 \/ next_node[1] >= _n_rows
          THEN carve_recur_for(st, node, Tail(directions))
          ELSE IF next_node[2] < 0 \/ next_node[2] >= _n_cols
          THEN carve_recur_for(st, node, Tail(directions))
          ELSE IF st.vis[_get_cell_index(next_node[1], next_node[2])]
          THEN carve_recur_for(st, node, Tail(directions))
          ELSE LET st1 == _set_edge_at(st, node[1], node[2], d)
               IN IF st1.raised THEN {st1}
                  ELSE UNION {carve_recur_for(st2, node, Tail(directions)) :
                                st2 \in carve_recur(st1, next_node)}

(* -------------------------------- Init -------------------------------- *)
NoRet ==
  [op |-> "none", pos |-> <<0, 0>>, d |-> NORTH, raised |-> FALSE,
   moved |-> FALSE, new_pos |-> <<0, 0>>, map |-> <<>>]

\* the arguments of Maze(n_rows, n_cols, start_pos, goal_pos): start_pos and
\* goal_pos range over the grid and one ring of cells around it
Positions == (-1 .. MaxRows) \X (-1 .. MaxCols)

GoalArgs == {None, <<0, 0>>, <<MaxRows, MaxCols>>}

\* __init__ up to the call of _carve_paths
Init ==
  \E n_rows \in 1..MaxRows, n_cols \in 1..MaxCols,
     start_pos \in Positions, goal_pos \in GoalArgs :
    /\ n_rows * n_cols <= MaxCells
    /\ start_pos[1] <= n_rows /\ start_pos[2] <= n_cols
    /\ _n_rows = n_rows
    /\ _n_cols = n_cols
    /\ _start_pos = start_pos
    /\ _goal_pos = IF goal_pos # None THEN goal_pos
                   ELSE <<n_rows - 1, n_cols - 1>>
    /\ _horizontal_edges = [i \in 0 .. (n_rows - 1) * n_cols - 1 |-> FALSE]
    /\ _vertical_edges = [i \in 0 .. (n_cols - 1) * n_rows - 1 |-> FALSE]
    /\ _visited = [i \in 0 .. n_rows * n_cols - 1 |-> FALSE]
    /\ visiting_nodes = <<>>
    /\ pc = "new"
    /\ ret = NoRet

(* ------------------------------ actions ------------------------------- *)
\* _carve_paths -> _carve_path_iter(self._start_pos), up to the while loop
CarveStart ==
  /\ pc = "new"
  /\ LET idx == _get_cell_index(_start_pos[1], _start_pos[2])
     IN IF idx = AssertionError
        THEN /\ pc' = "raised"
             /\ UNCHANGED <<_visited, visiting_nodes>>
        ELSE /\ visiting_nodes' = <<_start_pos>>
             /\ _visited' = [_visited EXCEPT ![idx] = TRUE]
             /\ pc' = "loop"
  /\ UNCHANGED <<_n_rows, _n_cols, _start_pos, _goal_pos, _horizontal_edges,
                 _vertical_edges, ret>>

\* one iteration of "while len(visiting_nodes) > 0"
CarveIterate ==
  /\ pc = "loop"
  /\ Len(visiting_nodes) > 0
  /\ \E directions \in Shuffles :
       LET node == visiting_nodes[Len(visiting_nodes)]
           popped == SubSeq(visiting_nodes, 1, Len(visiting_nodes) - 1)
           pushed == IF _has_non_visited_neighbours(_visited, node[1], node[2]) # 0
                     THEN Append(popped, node) ELSE popped
           st == carve_iter_for(
                   CarveState(_horizontal_edges, _vertical_edges, _visited,
                              pushed, FALSE),
                   node, directions)
       IN /\ _horizontal_edges' = st.h
          /\ _vertical_edges' = st.v
          /\ _visited' = st.vis
          /\ visiting_nodes' = st.stack
          /\ pc' = IF st.raised THEN "raised" ELSE "loop"
  /\ UNCHANGED <<_n_rows, _n_cols, _start_pos, _goal_pos, ret>>

\* the while condition fails: _carve_path_iter, _carve_paths and __init__ return
CarveReturn ==
  /\ pc = "loop"
  /\ Len(visiting_nodes) = 0
  /\ pc' = "carved"
  /\ UNCHANGED <<maze, ret>>

\* move(pos, d) on the carved maze, pos a cell of the grid
Move ==
  /\ pc = "carved"
  /\ \E row \in 0 .. _n_rows - 1, col \in 0 .. _n_cols - 1, d \in Direction :
       LET edge == _get_edge_at(_horizontal_edges, _vertical_edges, row, col, d)
       IN ret' = [NoRet EXCEPT
                    !.op = "move", !.pos = <<row, col>>, !.d = d,
                    !.raised = edge.raised,
                    !.moved = ~edge.raised /\ edge.val # FALSE,
                    !.new_pos = IF edge.raised \/ edge.val = FALSE
                                THEN <<row, col>>
                                ELSE _get_cell_at(row, col, d)]
  /\ UNCHANGED <<maze, pc>>

\* the array make_binary_map returns: ret[r][c] after both loops have run
\* make_binary_map writing 1 for a wall instead of a passage on cell rows
make_binary_map_walls ==
  LET rows == _n_rows + (_n_rows - 1)
      cols == _n_cols + (_n_cols - 1)
  IN [r \in 0 .. rows - 1 |-> [c \in 0 .. cols - 1 |->
        IF r % 2 = 0
        THEN LET r_idx == r \div 2
                 edge_start_idx == _n_cols * r_idx - r_idx
             IN IF c % 2 = 0 THEN 1
                ELSE LET c_idx == (c + 1) \div 2
                     IN IF _vertical_edges[edge_start_idx + c_idx - 1]
                        THEN 0 ELSE 1
        ELSE LET r_idx == (r + 1) \div 2
                 edge_start_idx == _n_cols * (r_idx - 1)
             IN IF c % 2 = 0
                THEN IF _horizontal_edges[edge_start_idx + c \div 2]
                     THEN 1 ELSE 0
                ELSE 0]]

make_binary_map ==
  LET rows == _n_rows + (_n_rows - 1)
      cols == _n_cols + (_n_cols - 1)
  IN [r \in 0 .. rows - 1 |-> [c \in 0 .. cols - 1 |->
        IF r % 2 = 0
        THEN \* cell row: ret[r][2*c_idx - 1] for c_idx > 0, ret[2*r_idx][2*c_idx]
             LET r_idx == r \div 2
                 edge_start_idx == _n_cols * r_idx - r_idx
             IN IF c % 2 = 0 THEN 1
                ELSE LET c_idx == (c + 1) \div 2
                     IN IF _vertical_edges[edge_start_idx + c_idx - 1]
                        THEN 1 ELSE 0
        ELSE \* edge row: ret[r][2*c_idx]; the odd columns keep np.zeros' 0
             LET r_idx == (r + 1) \div 2
                 edge_start_idx == _n_cols * (r_idx - 1)
             IN IF c % 2 = 0
                THEN IF _horizontal_edges[edge_start_idx + c \div 2]
                     THEN 1 ELSE 0
                ELSE 0]]

MakeBinaryMap ==
  /\ pc = "carved"
  /\ ret' = [NoRet EXCEPT !.op = "make_binary_map", !.map = make_binary_map]
  /\ UNCHANGED <<maze, pc>>

Next == CarveStart \/ CarveIterate \/ CarveReturn \/ Move \/ MakeBinaryMap

Spec == Init /\ [][Next]_vars

\* the carving steps run inside the constructor call, which never suspends;
\* the queries are the caller's choice
FairSpec == Spec /\ WF_vars(CarveStart \/ CarveIterate \/ CarveReturn)

(* ------------------- the grid as the properties see it ----------------- *)
Cells == (0 .. _n_rows - 1) \X (0 .. _n_cols - 1)

InGrid(p) == p[1] >= 0 /\ p[1] < _n_rows /\ p[2] >= 0 /\ p[2] < _n_cols

\* the flag of the physical edge between two adjacent cells: row-major slot
\* of the upper cell for a row boundary, of the left cell for a column boundary
EdgeFlag(a, b) ==
  IF a[2] = b[2] /\ b[1] = a[1] + 1 THEN _horizontal_edges[_n_cols * a[1] + a[2]]
  ELSE IF a[1] = b[1] /\ b[2] = a[2] + 1
       THEN _vertical_edges[(_n_cols - 1) * a[1] + a[2]]
  ELSE FALSE

IsPassage(a, b) == EdgeFlag(a, b) \/ EdgeFlag(b, a)

Passages == {e \in Cells \X Cells : IsPassage(e[1], e[2])}

TrueCount(f) == Cardinality({i \in DOMAIN f : f[i]})

RECURSIVE Flood(_, _)
Flood(seen, edges) ==
  LET more == seen \cup {e[2] : e \in {x \in edges : x[1] \in seen}}
  IN IF more = seen THEN seen ELSE Flood(more, edges)

\* a finite graph is a forest iff stripping its leaf cells over and over
\* leaves no edge
RECURSIVE LeafStrips(_)
LeafStrips(edges) ==
  IF edges = {} THEN TRUE
  ELSE LET leaves == {c \in Cells : Cardinality({e \in edges : e[1] = c}) = 1}
       IN IF leaves = {} THEN FALSE
          ELSE LeafStrips({e \in edges : e[1] \notin leaves /\ e[2] \notin leaves})

Acyclic == LeafStrips(Passages)

AllVisited == \A i \in DOMAIN _visited : _visited[i]

(* -------------------------------- claims ------------------------------- *)
\* C1: every maze the constructor returns is a spanning tree of the grid:
\* n_rows*n_cols - 1 True entries in the two edge arrays together, every cell
\* reachable from start_pos through passages, and no cycle of passages.
SpanningTree ==
  pc = "carved" =>
    /\ TrueCount(_horizontal_edges) + TrueCount(_vertical_edges)
         = _n_rows * _n_cols - 1
    /\ Flood({_start_pos}, Passages) = Cells
    /\ Acyclic

\* a maze with more rows than columns (and east/west edges) was returned
SpanningTreeWitness ==
  /\ pc = "carved"
  /\ _n_rows > _n_cols
  /\ _n_cols >= 2
  /\ TrueCount(_vertical_edges) >= 1

\* C2: with valid dimensions and an in-grid start_pos the constructor never
\* raises, whatever the shuffles.
ConstructionNeverRaises == InGrid(_start_pos) => pc # "raised"

\* C3: move from a border cell in the direction that leaves the grid returns
\* (False, pos) and does not raise.
BoundarySafety ==
  (ret.op = "move" /\ ~InGrid(_get_cell_at(ret.pos[1], ret.pos[2], ret.d))) =>
    /\ ~ret.raised
    /\ ~ret.moved
    /\ ret.new_pos = ret.pos

\* C4: move towards a neighbour inside the grid returns (True, neighbour)
\* exactly when the edge between the two cells is a passage, and (False, pos)
\* otherwise.
MoveEdgeConsistency ==
  LET n == _get_cell_at(ret.pos[1], ret.pos[2], ret.d)
  IN (ret.op = "move" /\ InGrid(n)) =>
       /\ ~ret.raised
       /\ IF IsPassage(ret.pos, n)
          THEN ret.moved /\ ret.new_pos = n
          ELSE ~ret.moved /\ ret.new_pos = ret.pos

\* C5: no maze is constructed with its start cell or its goal cell outside the
\* grid.
EndpointsInGrid == pc = "carved" => InGrid(_start_pos) /\ InGrid(_goal_pos)

\* C6: make_binary_map returns a (2*n_rows-1) x (2*n_cols-1) grid of 0/1 with 1
\* at every (2r, 2c), 0 at every (2r+1, 2c+1), 1 at (2r+1, 2c) iff the edge
\* between (r, c) and (r+1, c) is a passage, 1 at (2r, 2c+1) iff the edge
\* between (r, c) and (r, c+1) is a passage; [[1]] for a 1x1 grid.
BinaryMapContent ==
  ret.op = "make_binary_map" =>
    /\ DOMAIN ret.map = 0 .. 2 * _n_rows - 2
    /\ \A r \in DOMAIN ret.map :
         /\ DOMAIN ret.map[r] = 0 .. 2 * _n_cols - 2
         /\ \A c \in DOMAIN ret.map[r] : ret.map[r][c] \in {0, 1}
    /\ \A p \in Cells :
         LET r == p[1]
             c == p[2]
         IN /\ ret.map[2 * r][2 * c] = 1
            /\ (r + 1 < _n_rows /\ c + 1 < _n_cols) =>
                 ret.map[2 * r + 1][2 * c + 1] = 0
            /\ r + 1 < _n_rows =>
                 (ret.map[2 * r + 1][2 * c] = 1 <=> IsPassage(p, <<r + 1, c>>))
            /\ c + 1 < _n_cols =>
                 (ret.map[2 * r][2 * c + 1] = 1 <=> IsPassage(p, <<r, c + 1>>))
    /\ (_n_rows = 1 /\ _n_cols = 1) => ret.map = [r \in {0} |-> [c \in {0} |-> 1]]

\* the map of a maze with both kinds of edges, some open and some walled
BinaryMapWitness ==
  /\ ret.op = "make_binary_map"
  /\ _n_rows >= 2
  /\ _n_cols >= 3
  /\ \E i \in DOMAIN _vertical_edges : ~_vertical_edges[i]
  /\ \E i \in DOMAIN _horizontal_edges : ~_horizontal_edges[i]

\* the edge arrays _carve_path_recur can leave behind from a fresh maze
RecurMazes ==
  LET fresh == CarveState(
                 [i \in 0 .. (_n_rows - 1) * _n_cols - 1 |-> FALSE],
                 [i \in 0 .. (_n_cols - 1) * _n_rows - 1 |-> FALSE],
                 [i \in 0 .. _n_rows * _n_cols - 1 |-> FALSE], <<>>, FALSE)
  IN {<<st.h, st.v>> : st \in {t \in carve_recur(fresh, _start_pos) : ~t.raised}}

\* C7: the iterative and the recursive carving produce the same set of mazes:
\* each pair of edge arrays _carve_path_iter ends with is one that
\* _carve_path_recur can end with for the same grid and start cell.
IterRecurEquivalent ==
  pc = "carved" => <<_horizontal_edges, _vertical_edges>> \in RecurMazes

\* C8: for every valid grid and in-grid start cell the while loop reaches an
\* empty stack, and whenever the stack is empty at the loop test every cell
\* is visited.
CarvingTerminates ==
  /\ InGrid(_start_pos) => <>(pc = "loop" /\ visiting_nodes = <<>>)
  /\ [](pc = "loop" /\ visiting_nodes = <<>> => AllVisited)

\* C9: on every constructed maze _get_edge_idx maps the edges of each
\* orientation one-to-one onto the indices of its array, and both cells of an
\* edge obtain the same index.
EdgeIndexBijection ==
  pc = "carved" =>
  LET south == {p \in Cells : p[1] + 1 < _n_rows}
      east == {p \in Cells : p[2] + 1 < _n_cols}
      s(p) == _get_edge_idx(p[1], p[2], SOUTH)
      e(p) == _get_edge_idx(p[1], p[2], EAST)
  IN /\ \A p \in south : s(p) # AssertionError
                         /\ s(p) = _get_edge_idx(p[1] + 1, p[2], NORTH)
     /\ \A p, q \in south : s(p) = s(q) => p = q
     /\ {s(p) : p \in south} = DOMAIN _horizontal_edges
     /\ \A p \in east : e(p) # AssertionError
                        /\ e(p) = _get_edge_idx(p[1], p[2] + 1, WEST)
     /\ \A p, q \in east : e(p) = e(q) => p = q
     /\ {e(p) : p \in east} = DOMAIN _vertical_edges

\* the state part of the loop invariant, at the while test
LoopState ==
  /\ TrueCount(_horizontal_edges) + TrueCount(_vertical_edges)
       = TrueCount(_visited) - 1
  /\ \A e \in Passages :
       /\ _visited[e[1][1] * _n_cols + e[1][2]]
       /\ _visited[e[2][1] * _n_cols + e[2][2]]
  /\ \A i \in 1 .. Len(visiting_nodes) :
       /\ InGrid(visiting_nodes[i])
       /\ _visited[visiting_nodes[i][1] * _n_cols + visiting_nodes[i][2]]
       /\ \A j \in 1 .. Len(visiting_nodes) :
            visiting_nodes[i] = visiting_nodes[j] => i = j
  /\ Len(visiting_nodes) <= _n_rows * _n_cols

\* no passage and no visited flag is ever reset
NeverReset ==
  /\ \A i \in DOMAIN _horizontal_edges :
       _horizontal_edges[i] => _horizontal_edges'[i]
  /\ \A i \in DOMAIN _vertical_edges : _vertical_edges[i] => _vertical_edges'[i]
  /\ \A i \in DOMAIN _visited : _visited[i] => _visited'[i]

\* C10: at the start of every iteration of the while loop the passages number
\* the visited cells minus one and join visited cells, the stack holds visited
\* cells without repetition, and no passage or visited flag is ever reset.
LoopInvariant == [](pc = "loop" => LoopState) /\ [][NeverReset]_vars

\* the loop test with a stack of three cells and cells still to visit
LoopInvariantWitness ==
  /\ pc = "loop"
  /\ Len(visiting_nodes) >= 3
  /\ ~AllVisited
  /\ TrueCount(_vertical_edges) >= 1
  /\ TrueCount(_horizontal_edges) >= 1

=============================================================================
